---- MODULE Spec2Model ----
(***************************************************************************)
(* Model of the tilepad-manifest crate: the identifier and name grammars,  *)
(* the colour grammar, the validated newtypes, the garde validation walk   *)
(* over a plugin / icon-pack manifest and the native binary selection.     *)
(*                                                                         *)
(* A Rust &str is modelled as a sequence of characters; a character is a   *)
(* one-letter TLA+ string, or a "U+XXXX" tag for a character outside       *)
(* ASCII (which takes two bytes in UTF-8).                                 *)
(***************************************************************************)
EXTENDS Integers, Sequences, FiniteSets, TLC

VARIABLES op, arg, ret

vars == <<op, arg, ret>>

----------------------------------------------------------------------------
(* Characters *)

LowerLetters ==
    <<"a","b","c","d","e","f","g","h","i","j","k","l","m",
      "n","o","p","q","r","s","t","u","v","w","x","y","z">>

UpperLetters ==
    <<"A","B","C","D","E","F","G","H","I","J","K","L","M",
      "N","O","P","Q","R","S","T","U","V","W","X","Y","Z">>

DigitChars == <<"0","1","2","3","4","5","6","7","8","9">>

Range(f) == {f[i] : i \in DOMAIN f}

\* U+00E9 (e acute) and U+00C9 (E acute): alphabetic, not ASCII
NonAsciiLower == "U+00E9"
NonAsciiUpper == "U+00C9"

AsciiLower == Range(LowerLetters)

AsciiUpper == Range(UpperLetters)

AsciiDigits == Range(DigitChars)

HexLetters == {"a","b","c","d","e","f","A","B","C","D","E","F"}

is_ascii_alphabetic(c) == c \in AsciiLower \/ c \in AsciiUpper

is_ascii_digit(c) == c \in AsciiDigits

\* char::is_alphanumeric is the Unicode property
is_alphanumeric(c) ==
    \/ is_ascii_alphabetic(c)
    \/ is_ascii_digit(c)
    \/ c \in {NonAsciiLower, NonAsciiUpper}

is_ascii_hexdigit(c) == is_ascii_digit(c) \/ c \in HexLetters

is_whitespace(c) == c \in {" ", "\t"}

\* value of an ASCII digit
DigitValues ==
    [c \in AsciiDigits |-> (CHOOSE i \in DOMAIN DigitChars : DigitChars[i] = c) - 1]

digit_value(c) == DigitValues[c]

\* bytes the character takes in UTF-8
len_utf8(c) == IF c \in {NonAsciiLower, NonAsciiUpper} THEN 2 ELSE 1

LowerOf ==
    [c \in AsciiUpper |->
        LowerLetters[CHOOSE i \in DOMAIN UpperLetters : UpperLetters[i] = c]]

UpperOf ==
    [c \in AsciiLower |->
        UpperLetters[CHOOSE i \in DOMAIN LowerLetters : LowerLetters[i] = c]]

to_lowercase_char(c) ==
    IF c \in AsciiUpper THEN LowerOf[c]
    ELSE IF c = NonAsciiUpper THEN NonAsciiLower ELSE c

to_uppercase_char(c) ==
    IF c \in AsciiLower THEN UpperOf[c]
    ELSE IF c = NonAsciiLower THEN NonAsciiUpper ELSE c

----------------------------------------------------------------------------
(* Strings *)

\* str::len: the length in bytes
RECURSIVE byte_len(_)
byte_len(s) == IF s = <<>> THEN 0 ELSE len_utf8(Head(s)) + byte_len(Tail(s))

to_lowercase(s) == [i \in 1..Len(s) |-> to_lowercase_char(s[i])]

\* to_string folding the case of the characters
to_string_case_folded(s) == to_lowercase(s)

\* String::from / str::to_string: a copy of the characters
to_string(s) == [i \in 1..Len(s) |-> s[i]]

starts_with(s, p) == Len(s) >= Len(p) /\ SubSeq(s, 1, Len(p)) = p

ends_with(s, p) == Len(s) >= Len(p) /\ SubSeq(s, Len(s) - Len(p) + 1, Len(s)) = p

\* Option<&str>: <<rest>> for Some(rest), <<>> for None
strip_prefix(s, p) ==
    IF starts_with(s, p) THEN <<SubSeq(s, Len(p) + 1, Len(s))>> ELSE <<>>

strip_suffix(s, p) ==
    IF ends_with(s, p) THEN <<SubSeq(s, 1, Len(s) - Len(p))>> ELSE <<>>

RECURSIVE trim_start(_)
trim_start(s) ==
    IF s # <<>> /\ is_whitespace(Head(s)) THEN trim_start(Tail(s)) ELSE s

RECURSIVE trim_end(_)
trim_end(s) ==
    IF s # <<>> /\ is_whitespace(s[Len(s)])
    THEN trim_end(SubSeq(s, 1, Len(s) - 1))
    ELSE s

trim(s) == trim_end(trim_start(s))

\* str::split(sep): the pieces between separators, empty pieces included;
\* a string without separator (the empty one too) is one piece
RECURSIVE split_from(_, _, _)
split_from(s, sep, piece) ==
    IF s = <<>> THEN <<piece>>
    ELSE IF Head(s) = sep THEN <<piece>> \o split_from(Tail(s), sep, <<>>)
    ELSE split_from(Tail(s), sep, Append(piece, Head(s)))

split(s, sep) == split_from(s, sep, <<>>)

----------------------------------------------------------------------------
(* garde::Result *)

Ok == [ok |-> TRUE, err |-> ""]

Err(msg) == [ok |-> FALSE, err |-> msg]

\* Option<T>: <<>> is None, <<x>> is Some(x)
None == <<>>

Some(x) == <<x>>

----------------------------------------------------------------------------
(* Identifier and name grammar *)

NAME_SEPARATORS == {"-", "_"}

starts_with_ascii_alphabetic(part) ==
    part # <<>> /\ is_ascii_alphabetic(part[1])

all_name_chars(part) ==
    \A i \in 1..Len(part) :
        is_alphanumeric(part[i]) \/ part[i] \in NAME_SEPARATORS

ends_with_separator(part) ==
    part # <<>> /\ part[Len(part)] \in NAME_SEPARATORS

\* validate_id_part without the check of the last character
validate_id_part_no_trailing_check(part) ==
    IF ~starts_with_ascii_alphabetic(part)
    THEN Err("segment must start with a ascii alphabetic character")
    ELSE IF ~all_name_chars(part)
    THEN Err("name domain segment must only contain alpha numeric values and _ or -")
    ELSE Ok

\* the body of the loop of validate_id for one part: the error it returns,
\* or Ok when the loop goes on
validate_id_part(part) ==
    IF ~starts_with_ascii_alphabetic(part)
    THEN Err("segment must start with a ascii alphabetic character")
    ELSE IF ~all_name_chars(part)
    THEN Err("name domain segment must only contain alpha numeric values and _ or -")
    ELSE IF ends_with_separator(part)
    THEN Err("name domain segment must not end with _ or -")
    ELSE Ok

\* the loop of validate_id returning the error of the last failing part
RECURSIVE validate_id_parts_last_failure(_)
validate_id_parts_last_failure(parts) ==
    IF parts = <<>> THEN Ok
    ELSE IF ~validate_id_parts_last_failure(Tail(parts)).ok
    THEN validate_id_parts_last_failure(Tail(parts))
    ELSE validate_id_part(Head(parts))

RECURSIVE validate_id_parts(_)
validate_id_parts(parts) ==
    IF parts = <<>> THEN Ok
    ELSE IF ~validate_id_part(Head(parts)).ok THEN validate_id_part(Head(parts))
    ELSE validate_id_parts(Tail(parts))

validate_id(value) == validate_id_parts(split(value, "."))

\* validate_name applying the three checks to each '.'-separated part
validate_name_per_segment(value) ==
    IF validate_id(value).ok THEN Ok
    ELSE Err("name must start with a ascii alphabetic character")

validate_name(value) ==
    IF ~starts_with_ascii_alphabetic(value)
    THEN Err("name must start with a ascii alphabetic character")
    ELSE IF ~all_name_chars(value)
    THEN Err("name must only contain alpha numeric values and _ or -")
    ELSE IF ends_with_separator(value)
    THEN Err("name must not end with _ or -")
    ELSE Ok

----------------------------------------------------------------------------
(* garde::Report and the validated newtypes *)

\* one entry of a garde::Report: the path of the value and the error
Entry(path, msg) == [path |-> path, msg |-> msg]

\* Validate::validate: Ok(()) when validate_into left the report empty,
\* Err(report) otherwise
validate(report) == IF report = <<>> THEN Ok ELSE [ok |-> FALSE, report |-> report]

\* #[garde(custom(f))] on a field: the rule's error goes to the report
\* under the field's path
custom(result, path) == IF result.ok THEN <<>> ELSE <<Entry(path, result.err)>>

PluginId(inner) == [ty |-> "PluginId", inner |-> inner]

IconPackId(inner) == [ty |-> "IconPackId", inner |-> inner]

ActionId(inner) == [ty |-> "ActionId", inner |-> inner]

\* derived Validate of the #[garde(transparent)] newtypes: the rule of the
\* wrapped string, reported at the newtype's own path
PluginId_validate_into(self, path) == custom(validate_id(self.inner), path)

IconPackId_validate_into(self, path) == custom(validate_id(self.inner), path)

ActionId_validate_into(self, path) == custom(validate_name(self.inner), path)

as_str(self) == self.inner

\* Display::fmt writes the wrapped string
fmt(self) == self.inner

\* Result<Self, garde::Report>
OkValue(value) == [ok |-> TRUE, value |-> value]

from_validated(value, report) ==
    IF validate(report).ok THEN OkValue(value) ELSE validate(report)

PluginId_from_str(s) ==
    LET value == PluginId(to_string(s))
    IN  from_validated(value, PluginId_validate_into(value, <<>>))

IconPackId_from_str(s) ==
    LET value == IconPackId(to_string(s))
    IN  from_validated(value, IconPackId_validate_into(value, <<>>))

ActionId_from_str(s) ==
    LET value == ActionId(to_string(s))
    IN  from_validated(value, ActionId_validate_into(value, <<>>))

PluginId_try_from(value) == PluginId_from_str(value)

IconPackId_try_from(value) == IconPackId_from_str(value)

ActionId_try_from(value) == ActionId_from_str(value)

----------------------------------------------------------------------------
(* Bounded inputs *)

MaxIdLen == 3

IdChars == {"a", "B", "1", NonAsciiLower, "-", "_", ".", "$"}

\* the sequences over S of length up to n
SeqsUpTo(S, n) == UNION {[1..k -> S] : k \in 0..n}

IdStrings == SeqsUpTo(IdChars, MaxIdLen)

----------------------------------------------------------------------------
(* Operations on identifiers: each call runs from the idle state and       *)
(* leaves its input and its result in the state.                           *)

Init == op = "idle" /\ arg = <<>> /\ ret = <<>>

Return ==
    /\ op # "idle"
    /\ op' = "idle"
    /\ arg' = <<>>
    /\ ret' = <<>>

CallValidateId ==
    /\ op = "idle"
    /\ \E s \in IdStrings :
        /\ op' = "validate_id"
        /\ arg' = s
        /\ ret' = validate_id(s)

CallValidateName ==
    /\ op = "idle"
    /\ \E s \in IdStrings :
        /\ op' = "validate_name"
        /\ arg' = s
        /\ ret' = validate_name(s)

CallPluginIdFromStr ==
    /\ op = "idle"
    /\ \E s \in IdStrings :
        /\ op' = "PluginId::from_str"
        /\ arg' = s
        /\ ret' = PluginId_from_str(s)

CallPluginIdTryFrom ==
    /\ op = "idle"
    /\ \E s \in IdStrings :
        /\ op' = "PluginId::try_from"
        /\ arg' = s
        /\ ret' = PluginId_try_from(s)

CallIconPackIdFromStr ==
    /\ op = "idle"
    /\ \E s \in IdStrings :
        /\ op' = "IconPackId::from_str"
        /\ arg' = s
        /\ ret' = IconPackId_from_str(s)

CallIconPackIdTryFrom ==
    /\ op = "idle"
    /\ \E s \in IdStrings :
        /\ op' = "IconPackId::try_from"
        /\ arg' = s
        /\ ret' = IconPackId_try_from(s)

CallActionIdFromStr ==
    /\ op = "idle"
    /\ \E s \in IdStrings :
        /\ op' = "ActionId::from_str"
        /\ arg' = s
        /\ ret' = ActionId_from_str(s)

CallActionIdTryFrom ==
    /\ op = "idle"
    /\ \E s \in IdStrings :
        /\ op' = "ActionId::try_from"
        /\ arg' = s
        /\ ret' = ActionId_try_from(s)

NextIdent ==
    \/ CallValidateId
    \/ CallValidateName
    \/ CallPluginIdFromStr
    \/ CallPluginIdTryFrom
    \/ CallIconPackIdFromStr
    \/ CallIconPackIdTryFrom
    \/ CallActionIdFromStr
    \/ CallActionIdTryFrom
    \/ Return

SpecIdent == Init /\ [][NextIdent]_vars

----------------------------------------------------------------------------
(* Properties of the identifier grammar and the newtypes *)

\* the pieces of s between '.' characters, as index pairs <<first, last>>
\* (last = first - 1 for an empty piece)
IdPieceBounds(s) ==
    {b \in (1..(Len(s) + 1)) \X (0..Len(s)) :
        /\ b[1] <= b[2] + 1
        /\ (b[1] = 1 \/ s[b[1] - 1] = ".")
        /\ (b[2] = Len(s) \/ s[b[2] + 1] = ".")
        /\ \A k \in b[1]..b[2] : s[k] # "."}

IdPieces(s) == {SubSeq(s, b[1], b[2]) : b \in IdPieceBounds(s)}

\* the three rules of one segment
SegmentRule(p) ==
    /\ p # <<>>
    /\ is_ascii_alphabetic(p[1])
    /\ \A k \in 1..Len(p) : is_alphanumeric(p[k]) \/ p[k] \in {"-", "_"}
    /\ p[Len(p)] \notin {"-", "_"}

DomainGrammar(s) == \A p \in IdPieces(s) : SegmentRule(p)

IdentConstructors ==
    {"PluginId::from_str", "PluginId::try_from",
     "IconPackId::from_str", "IconPackId::try_from",
     "ActionId::from_str", "ActionId::try_from"}

GrammarOf(constructor, s) ==
    IF constructor \in {"ActionId::from_str", "ActionId::try_from"}
    THEN SegmentRule(s)
    ELSE DomainGrammar(s)

Construct(constructor, s) ==
    CASE constructor = "PluginId::from_str" -> PluginId_from_str(s)
      [] constructor = "PluginId::try_from" -> PluginId_try_from(s)
      [] constructor = "IconPackId::from_str" -> IconPackId_from_str(s)
      [] constructor = "IconPackId::try_from" -> IconPackId_try_from(s)
      [] constructor = "ActionId::from_str" -> ActionId_from_str(s)
      [] constructor = "ActionId::try_from" -> ActionId_try_from(s)

\* C4: from_str / try_from of PluginId, IconPackId and ActionId return Ok
\* exactly when the type's grammar accepts the string; the value then wraps
\* the string unchanged (as_str and Display give it back character for
\* character) and constructing again from as_str() gives an equal Ok value.
C4_ConstructRoundTrip ==
    op \in IdentConstructors =>
        /\ ret.ok <=> GrammarOf(op, arg)
        /\ ret.ok =>
            /\ as_str(ret.value) = arg
            /\ fmt(ret.value) = arg
            /\ Construct(op, as_str(ret.value)).ok
            /\ Construct(op, as_str(ret.value)).value = ret.value

\* an accepted identifier with an upper-case letter and two segments
C4_Witness ==
    /\ op = "PluginId::from_str"
    /\ ret.ok
    /\ "B" \in Range(arg)
    /\ "." \in Range(arg)

----------------------------------------------------------------------------
(* Number parsing: str::parse::<u16>, ::<u8> and ::<f64> *)

U16_MAX == 65535

U8_MAX == 255

\* the digits accumulated with wrapping_mul and wrapping_add
RECURSIVE parse_digits_wrapping(_, _, _)
parse_digits_wrapping(s, acc, max) ==
    IF s = <<>> THEN Some(acc)
    ELSE IF ~is_ascii_digit(Head(s)) THEN None
    ELSE parse_digits_wrapping(Tail(s), (acc * 10 + digit_value(Head(s))) % (max + 1), max)

\* the digits of an unsigned integer accumulated with checked_mul and
\* checked_add: None on a character that is no digit and on overflow
RECURSIVE parse_digits(_, _, _)
parse_digits(s, acc, max) ==
    IF s = <<>> THEN Some(acc)
    ELSE IF ~is_ascii_digit(Head(s)) THEN None
    ELSE IF acc * 10 > max THEN None
    ELSE IF acc * 10 + digit_value(Head(s)) > max THEN None
    ELSE parse_digits(Tail(s), acc * 10 + digit_value(Head(s)), max)

\* FromStr of an unsigned integer type: one leading '+' is skipped, a '-'
\* is an invalid digit, the empty string and a lone sign are errors
parse_unsigned(s, max) ==
    IF s = <<>> THEN None
    ELSE IF Len(s) = 1 /\ s[1] \in {"+", "-"} THEN None
    ELSE IF s[1] = "+" THEN parse_digits(Tail(s), 0, max)
    ELSE parse_digits(s, 0, max)

RECURSIVE count_digits(_)
count_digits(s) ==
    IF s # <<>> /\ is_ascii_digit(Head(s)) THEN 1 + count_digits(Tail(s)) ELSE 0

RECURSIVE digits_value(_, _)
digits_value(s, acc) ==
    IF s = <<>> THEN acc ELSE digits_value(Tail(s), acc * 10 + digit_value(Head(s)))

drop(s, n) == SubSeq(s, n + 1, Len(s))

\* the exponent of a decimal float after 'e': Some(exponent), or None when
\* no digit follows the optional sign or something follows the digits
parse_scientific(s) ==
    LET negative == s # <<>> /\ s[1] = "-"
        digits == IF s # <<>> /\ s[1] \in {"+", "-"} THEN Tail(s) ELSE s
    IN  IF digits = <<>> \/ count_digits(digits) # Len(digits) THEN None
        ELSE IF negative THEN Some(0 - digits_value(digits, 0))
        ELSE Some(digits_value(digits, 0))

\* a float without its sign: digits, an optional '.' and digits (one digit
\* at least in all), an optional exponent; the value is mant * 10^exp10
parse_number(s) ==
    LET n_int == count_digits(s)
        after_int == drop(s, n_int)
        has_dot == after_int # <<>> /\ after_int[1] = "."
        frac_start == IF has_dot THEN Tail(after_int) ELSE after_int
        n_frac == IF has_dot THEN count_digits(frac_start) ELSE 0
        after_frac == drop(frac_start, n_frac)
        mant == digits_value(SubSeq(s, 1, n_int) \o SubSeq(frac_start, 1, n_frac), 0)
    IN  IF n_int + n_frac = 0 THEN None
        ELSE IF after_frac = <<>>
        THEN Some([kind |-> "finite", mant |-> mant, exp10 |-> 0 - n_frac])
        ELSE IF after_frac[1] \notin {"e", "E"} THEN None
        ELSE IF parse_scientific(Tail(after_frac)) = None THEN None
        ELSE Some([kind |-> "finite", mant |-> mant,
                   exp10 |-> parse_scientific(Tail(after_frac))[1] - n_frac])

\* "inf", "infinity" and "nan" in any case
parse_inf_nan(s) ==
    LET l == to_lowercase(s)
    IN  IF l = <<"i","n","f">> \/ l = <<"i","n","f","i","n","i","t","y">>
        THEN Some([kind |-> "inf", mant |-> 0, exp10 |-> 0])
        ELSE IF l = <<"n","a","n">>
        THEN Some([kind |-> "nan", mant |-> 0, exp10 |-> 0])
        ELSE None

\* FromStr for f64: Some([neg, kind, mant, exp10]) or None
parse_f64(s) ==
    LET negative == s # <<>> /\ s[1] = "-"
        rest == IF s # <<>> /\ s[1] \in {"+", "-"} THEN Tail(s) ELSE s
        number == IF parse_number(rest) # None THEN parse_number(rest)
                  ELSE parse_inf_nan(rest)
    IN  IF rest = <<>> \/ number = None THEN None
        ELSE Some([neg |-> negative, kind |-> number[1].kind,
                   mant |-> number[1].mant, exp10 |-> number[1].exp10])

RECURSIVE pow10(_)
pow10(n) == IF n = 0 THEN 1 ELSE 10 * pow10(n - 1)

\* (0.0..=1.0).contains(&value); -0.0 is in the range, NaN and the
\* infinities are not. Exact for the decimals of up to 9 digits, which f64
\* orders against 0.0 and 1.0 as the reals do.
in_unit_range(value) ==
    /\ value.kind = "finite"
    /\ \/ value.mant = 0
       \/ /\ ~value.neg
          /\ IF value.exp10 >= 0 THEN value.mant = 1 /\ value.exp10 = 0
             ELSE IF 0 - value.exp10 > 9 THEN TRUE
             ELSE value.mant <= pow10(0 - value.exp10)

----------------------------------------------------------------------------
(* Colour grammar *)

parse_percentage(s) ==
    LET number == strip_suffix(s, <<"%">>)
    IN  IF number = None THEN Err("missing % sign")
        ELSE IF parse_unsigned(number[1], U8_MAX) = None THEN Err("invalid percent")
        ELSE IF parse_unsigned(number[1], U8_MAX)[1] > 100 THEN Err("percent > 100")
        ELSE Ok

parse_rgb_component(s) ==
    IF ends_with(s, <<"%">>) THEN parse_percentage(s)
    ELSE IF parse_unsigned(s, U16_MAX) = None THEN Err("invalid number")
    ELSE IF parse_unsigned(s, U16_MAX)[1] > 255 THEN Err("rgb exceeded 255 bound")
    ELSE Ok

parse_alpha(s) ==
    IF parse_f64(s) # None /\ in_unit_range(parse_f64(s)[1]) THEN Ok
    ELSE Err("invalid alpha")

\* parse_hue without the upper bound
parse_hue_unbounded(s) ==
    IF parse_unsigned(s, U16_MAX) = None THEN Err("invalid hue") ELSE Ok

parse_hue(s) ==
    IF parse_unsigned(s, U16_MAX) = None THEN Err("invalid hue")
    ELSE IF parse_unsigned(s, U16_MAX)[1] > 360
    THEN Err("hue must not be greater than 360")
    ELSE Ok

\* value.split(',').map(|s| s.trim()).collect()
comma_parts(value) ==
    LET pieces == split(value, ",")
    IN  [i \in 1..Len(pieces) |-> trim(pieces[i])]

\* the error of the last result that is one
RECURSIVE last_err(_)
last_err(results) ==
    IF results = <<>> THEN Ok
    ELSE IF ~last_err(Tail(results)).ok THEN last_err(Tail(results))
    ELSE Head(results)

\* results in order, each `?` returning the first error
RECURSIVE first_err(_)
first_err(results) ==
    IF results = <<>> THEN Ok
    ELSE IF ~Head(results).ok THEN Head(results)
    ELSE first_err(Tail(results))

\* validate_hex_color without the check of the digits
validate_hex_color_length_only(value) ==
    IF strip_prefix(value, <<"#">>) = None THEN Err("hex color must start with #")
    ELSE IF byte_len(strip_prefix(value, <<"#">>)[1]) \notin {3, 4, 6, 8}
    THEN Err("hex color must be 3, 4, 6, or 8 hex digits")
    ELSE Ok

validate_hex_color(value) ==
    LET digits == strip_prefix(value, <<"#">>)
    IN  IF digits = None THEN Err("hex color must start with #")
        ELSE IF byte_len(digits[1]) \notin {3, 4, 6, 8}
        THEN Err("hex color must be 3, 4, 6, or 8 hex digits")
        ELSE IF ~(\A i \in 1..Len(digits[1]) : is_ascii_hexdigit(digits[1][i]))
        THEN Err("hex color contains invalid characters")
        ELSE Ok

\* validate_rgb_color accepting a fourth part
validate_rgb_color_any_count(value) ==
    LET open == strip_prefix(value, <<"r","g","b","(">>)
        closed == IF open = None THEN None ELSE strip_suffix(open[1], <<")">>)
        parts == IF closed = None THEN <<>> ELSE comma_parts(closed[1])
    IN  IF open = None THEN Err("rgb color must start with rgb(")
        ELSE IF closed = None THEN Err("unclosed rgb color")
        ELSE IF Len(parts) < 3 THEN Err("invalid rgb color")
        ELSE first_err([i \in 1..Len(parts) |-> parse_rgb_component(parts[i])])

validate_rgb_color(value) ==
    LET open == strip_prefix(value, <<"r","g","b","(">>)
        closed == IF open = None THEN None ELSE strip_suffix(open[1], <<")">>)
        parts == IF closed = None THEN <<>> ELSE comma_parts(closed[1])
    IN  IF open = None THEN Err("rgb color must start with rgb(")
        ELSE IF closed = None THEN Err("unclosed rgb color")
        ELSE IF Len(parts) # 3 THEN Err("invalid rgb color")
        ELSE first_err([i \in 1..3 |-> parse_rgb_component(parts[i])])

validate_rgba_color(value) ==
    LET open == strip_prefix(value, <<"r","g","b","a","(">>)
        closed == IF open = None THEN None ELSE strip_suffix(open[1], <<")">>)
        parts == IF closed = None THEN <<>> ELSE comma_parts(closed[1])
    IN  IF open = None THEN Err("rgba color must start with rgba(")
        ELSE IF closed = None THEN Err("unclosed rgba color")
        ELSE IF Len(parts) # 4 THEN Err("invalid rgba color")
        ELSE first_err(<<parse_rgb_component(parts[1]), parse_rgb_component(parts[2]),
                         parse_rgb_component(parts[3]), parse_alpha(parts[4])>>)

validate_hsl_color(value) ==
    LET open == strip_prefix(value, <<"h","s","l","(">>)
        closed == IF open = None THEN None ELSE strip_suffix(open[1], <<")">>)
        parts == IF closed = None THEN <<>> ELSE comma_parts(closed[1])
    IN  IF open = None THEN Err("hsl color must start with hsl(")
        ELSE IF closed = None THEN Err("unclosed hsl color")
        ELSE IF Len(parts) # 3 THEN Err("invalid hsl color")
        ELSE first_err(<<parse_hue(parts[1]), parse_percentage(parts[2]),
                         parse_percentage(parts[3])>>)

validate_hsla_color(value) ==
    LET open == strip_prefix(value, <<"h","s","l","a","(">>)
        closed == IF open = None THEN None ELSE strip_suffix(open[1], <<")">>)
        parts == IF closed = None THEN <<>> ELSE comma_parts(closed[1])
    IN  IF open = None THEN Err("hsla color must start with hsla(")
        ELSE IF closed = None THEN Err("unclosed hsla color")
        ELSE IF Len(parts) # 4 THEN Err("invalid hsla color")
        ELSE first_err(<<parse_hue(parts[1]), parse_percentage(parts[2]),
                         parse_percentage(parts[3]), parse_alpha(parts[4])>>)

\* the dispatch of validate_color on the text as given
dispatch_color(value) ==
    IF starts_with(value, <<"#">>) THEN validate_hex_color(value)
    ELSE IF starts_with(value, <<"r","g","b","(">>) THEN validate_rgb_color(value)
    ELSE IF starts_with(value, <<"r","g","b","a","(">>) THEN validate_rgba_color(value)
    ELSE IF starts_with(value, <<"h","s","l","(">>) THEN validate_hsl_color(value)
    ELSE IF starts_with(value, <<"h","s","l","a","(">>) THEN validate_hsla_color(value)
    ELSE Err("invalid color value")

\* validate_color without trim() and to_lowercase()
validate_color_as_given(value) == dispatch_color(value)

validate_color(value) == dispatch_color(to_lowercase(trim(value)))

----------------------------------------------------------------------------
(* Colour inputs and the operation *)

MaxHexLen == 8

MaxParts == 5

\* a hex digit, a letter that is none, a two-byte letter
HexChars == {"f", "g", NonAsciiLower}

\* the parts tried in the first three places:
\* "0", " 255", "256", "360", "361", "100%", "101%", "0.5"
ChannelTokens ==
    {<<"0">>, <<" ", "2", "5", "5">>, <<"2", "5", "6">>, <<"3", "6", "0">>,
     <<"3", "6", "1">>, <<"1", "0", "0", "%">>, <<"1", "0", "1", "%">>,
     <<"0", ".", "5">>}

\* the parts tried in the fourth place: "0", "0.5", "1", "1.1", "-0.1", "50%"
AlphaTokens ==
    {<<"0">>, <<"0", ".", "5">>, <<"1">>, <<"1", ".", "1">>,
     <<"-", "0", ".", "1">>, <<"5", "0", "%">>}

\* lists of up to MaxParts parts; the parts after the fourth are "0"
PartLists ==
    SeqsUpTo(ChannelTokens, 3) \cup
    {channels \o <<alpha>> \o [i \in 1..extra |-> <<"0">>] :
        channels \in [1..3 -> ChannelTokens], alpha \in AlphaTokens,
        extra \in 0..(MaxParts - 4)}

FormPrefixes ==
    {<<"r","g","b","(">>, <<"r","g","b","a","(">>,
     <<"h","s","l","(">>, <<"h","s","l","a","(">>}

RECURSIVE join(_, _)
join(parts, sep) ==
    IF parts = <<>> THEN <<>>
    ELSE IF Len(parts) = 1 THEN parts[1]
    ELSE parts[1] \o sep \o join(Tail(parts), sep)

to_uppercase(s) == [i \in 1..Len(s) |-> to_uppercase_char(s[i])]

\* the text in upper case between surrounding whitespace
Padded(s) == <<" ", "\t">> \o to_uppercase(s) \o <<" ">>

\* "", "red", "123", "fff", "rgb", " "
OtherTexts ==
    {<<>>, <<"r","e","d">>, <<"1","2","3">>, <<"f","f","f">>, <<"r","g","b">>, <<" ">>}

\* the ways a text is written: as it is, or in upper case between whitespace
Styled(s, padded) == IF padded THEN Padded(s) ELSE s

\* '#' and up to MaxHexLen characters
CallValidateColorHex ==
    /\ op = "idle"
    /\ \E digits \in SeqsUpTo(HexChars, MaxHexLen), padded \in BOOLEAN :
        LET s == Styled(<<"#">> \o digits, padded)
        IN  /\ op' = "validate_color"
            /\ arg' = s
            /\ ret' = validate_color(s)

\* a functional form of up to MaxParts comma-separated parts, closed or not
CallValidateColorFunctional ==
    /\ op = "idle"
    /\ \E prefix \in FormPrefixes, parts \in PartLists,
          closing \in {<<")">>, <<>>}, padded \in BOOLEAN :
        LET s == Styled(prefix \o join(parts, <<",">>) \o closing, padded)
        IN  /\ op' = "validate_color"
            /\ arg' = s
            /\ ret' = validate_color(s)

CallValidateColorOther ==
    /\ op = "idle"
    /\ \E text \in OtherTexts, padded \in BOOLEAN :
        LET s == Styled(text, padded)
        IN  /\ op' = "validate_color"
            /\ arg' = s
            /\ ret' = validate_color(s)

MaxLeadingZeros == 2

\* the numerals tried: none, values around the bounds 100, 255 and 360,
\* and values that are 0, 100, 255 or 360 modulo 2^8 or 2^16
\* ("", "0", "5", "100", "101", "255", "256", "300", "356", "360", "361", "612",
\* "65535", "65536", "65636", "65791", "65896", "99999")
Numerals ==
    {<<>>,
     <<"0">>,
     <<"5">>,
     <<"1", "0", "0">>,
     <<"1", "0", "1">>,
     <<"2", "5", "5">>,
     <<"2", "5", "6">>,
     <<"3", "0", "0">>,
     <<"3", "5", "6">>,
     <<"3", "6", "0">>,
     <<"3", "6", "1">>,
     <<"6", "1", "2">>,
     <<"6", "5", "5", "3", "5">>,
     <<"6", "5", "5", "3", "6">>,
     <<"6", "5", "6", "3", "6">>,
     <<"6", "5", "7", "9", "1">>,
     <<"6", "5", "8", "9", "6">>,
     <<"9", "9", "9", "9", "9">>}

\* texts that are no numeral: inner whitespace, a fraction, an exponent,
\* two signs
OddNumberTexts == {<<"1", " ", "0">>, <<"5", " ", "%">>, <<"+", " ", "5">>, <<"1", ".", "5">>, <<"1", "e", "2">>, <<"+", "+", "1">>, <<"+", "-", "1">>}

\* an optional sign, leading zeros, a numeral, an optional '%'
NumberTokens ==
    {sign \o [i \in 1..zeros |-> "0"] \o numeral \o percent :
        sign \in {<<>>, <<"+">>, <<"-">>}, zeros \in 0..MaxLeadingZeros,
        numeral \in Numerals, percent \in {<<>>, <<"%">>}}
    \cup OddNumberTexts

\* parts that every rule of the form accepts
AcceptedParts(prefix) ==
    IF prefix = <<"r","g","b","(">> THEN <<<<"0">>, <<"0">>, <<"0">>>>
    ELSE IF prefix = <<"r","g","b","a","(">> THEN <<<<"0">>, <<"0">>, <<"0">>, <<"1">>>>
    ELSE IF prefix = <<"h","s","l","(">> THEN <<<<"0">>, <<"0", "%">>, <<"0", "%">>>>
    ELSE <<<<"0">>, <<"0", "%">>, <<"0", "%">>, <<"1">>>>

\* a closed functional form of accepted parts but for one of the first
\* three, a number token as it is or between spaces
CallValidateColorNumber ==
    /\ op = "idle"
    /\ \E prefix \in FormPrefixes, n \in 1..3, token \in NumberTokens, spaced \in BOOLEAN :
        LET part == IF spaced THEN <<" ">> \o token \o <<" ">> ELSE token
            parts == [AcceptedParts(prefix) EXCEPT ![n] = part]
            s == prefix \o join(parts, <<",">>) \o <<")">>
        IN  /\ op' = "validate_color"
            /\ arg' = s
            /\ ret' = validate_color(s)

NextColor ==
    \/ CallValidateColorHex
    \/ CallValidateColorFunctional
    \/ CallValidateColorNumber
    \/ CallValidateColorOther
    \/ Return

SpecColor == Init /\ [][NextColor]_vars

----------------------------------------------------------------------------
(* Properties of the colour grammar *)

\* s without its leading and trailing whitespace
Trimmed(s) ==
    IF \A i \in 1..Len(s) : is_whitespace(s[i]) THEN <<>>
    ELSE LET first == CHOOSE i \in 1..Len(s) :
                        ~is_whitespace(s[i]) /\ \A j \in 1..(i - 1) : is_whitespace(s[j])
             last == CHOOSE i \in 1..Len(s) :
                        ~is_whitespace(s[i]) /\ \A j \in (i + 1)..Len(s) : is_whitespace(s[j])
         IN  SubSeq(s, first, last)

\* the text validate_color decides on
Normalised(s) ==
    LET t == Trimmed(s)
    IN  [i \in 1..Len(t) |-> to_lowercase_char(t[i])]

HasPrefix(s, p) == Len(s) >= Len(p) /\ \A i \in 1..Len(p) : s[i] = p[i]

Commas(s) == {k \in 1..Len(s) : s[k] = ","}

PartCount(s) == Cardinality(Commas(s)) + 1

\* the n-th comma-separated part of s (1 <= n <= PartCount(s)), trimmed
PartAt(s, n) ==
    LET commas == Commas(s)
        before == IF n = 1 THEN 0
                  ELSE CHOOSE k \in commas : Cardinality({j \in commas : j <= k}) = n - 1
        after == IF n = Cardinality(commas) + 1 THEN Len(s) + 1
                 ELSE CHOOSE k \in commas : Cardinality({j \in commas : j <= k}) = n
    IN  Trimmed(SubSeq(s, before + 1, after - 1))

\* the text between the prefix of length n and the closing parenthesis
BodyOf(text, n) == SubSeq(text, n + 1, Len(text) - 1)

IsClosed(text) == text # <<>> /\ text[Len(text)] = ")"

\* the value of a string of digits
DecimalValue(d) ==
    LET Sum[k \in 0..Len(d)] ==
            IF k = 0 THEN 0 ELSE 10 * Sum[k - 1] + DigitValues[d[k]]
    IN  Sum[Len(d)]

\* an unsigned integer of value at most bound: an optional '+' and digits
IsUnsignedUpTo(p, bound) ==
    LET d == IF p # <<>> /\ p[1] = "+" THEN Tail(p) ELSE p
    IN  /\ d # <<>>
        /\ \A i \in 1..Len(d) : is_ascii_digit(d[i])
        /\ DecimalValue(d) <= bound

IsPercentage(p) ==
    /\ p # <<>>
    /\ p[Len(p)] = "%"
    /\ IsUnsignedUpTo(SubSeq(p, 1, Len(p) - 1), 100)

IsRgbPart(p) == IsUnsignedUpTo(p, 255) \/ IsPercentage(p)

IsHue(p) == IsUnsignedUpTo(p, 360)

IsAlpha(p) == parse_f64(p) # None /\ in_unit_range(parse_f64(p)[1])

HexPrefix == <<"#">>

RgbPrefix == <<"r","g","b","(">>

RgbaPrefix == <<"r","g","b","a","(">>

HslPrefix == <<"h","s","l","(">>

HslaPrefix == <<"h","s","l","a","(">>

ColorPrefixes == {HexPrefix, RgbPrefix, RgbaPrefix, HslPrefix, HslaPrefix}

C6_HexColor ==
    (op = "validate_color" /\ HasPrefix(Trimmed(arg), HexPrefix)) =>
        LET digits == Tail(Trimmed(arg))
        IN  ret.ok <=>
                /\ Len(digits) \in {3, 4, 6, 8}
                /\ \A i \in 1..Len(digits) : is_ascii_hexdigit(digits[i])

\* eight upper-case hex digits are accepted
C6_Witness ==
    /\ op = "validate_color"
    /\ ret.ok
    /\ HasPrefix(Trimmed(arg), HexPrefix)
    /\ Len(Trimmed(arg)) = 9
    /\ "F" \in Range(arg)

\* C7: an 'rgb(' literal is accepted exactly when it ends with ')' and its
\* body has exactly 3 comma-separated parts, each after trimming an
\* unsigned integer 0..255 or a percentage 0%..100%; an 'rgba(' literal
\* exactly when it ends with ')' and has exactly 4 parts, the first three
\* as for rgb and the fourth an alpha in [0.0, 1.0].
C7_RgbColor ==
    op = "validate_color" =>
        LET text == Normalised(arg)
            rgb == BodyOf(text, 4)
            rgba == BodyOf(text, 5)
        IN  /\ HasPrefix(text, RgbPrefix) =>
                (ret.ok <=>
                    /\ IsClosed(text)
                    /\ PartCount(rgb) = 3
                    /\ \A n \in 1..3 : IsRgbPart(PartAt(rgb, n)))
            /\ HasPrefix(text, RgbaPrefix) =>
                (ret.ok <=>
                    /\ IsClosed(text)
                    /\ PartCount(rgba) = 4
                    /\ \A n \in 1..3 : IsRgbPart(PartAt(rgba, n))
                    /\ IsAlpha(PartAt(rgba, 4)))

\* an accepted rgba literal that mixes an integer and a percentage
C7_Witness ==
    /\ op = "validate_color"
    /\ ret.ok
    /\ HasPrefix(Normalised(arg), RgbaPrefix)
    /\ \E m, n \in 1..3 :
        /\ IsPercentage(PartAt(BodyOf(Normalised(arg), 5), m))
        /\ IsUnsignedUpTo(PartAt(BodyOf(Normalised(arg), 5), n), 255)

\* C8: an 'hsl(' literal is accepted exactly when it ends with ')' and has
\* exactly 3 trimmed parts, a hue 0..360 and two percentages 0%..100%; an
\* 'hsla(' literal exactly when it has these and a fourth part, an alpha in
\* [0.0, 1.0]. A saturation or lightness without '%' and a hue of 361 are
\* rejected.
C8_HslColor ==
    op = "validate_color" =>
        LET text == Normalised(arg)
            hsl == BodyOf(text, 4)
            hsla == BodyOf(text, 5)
        IN  /\ HasPrefix(text, HslPrefix) =>
                (ret.ok <=>
                    /\ IsClosed(text)
                    /\ PartCount(hsl) = 3
                    /\ IsHue(PartAt(hsl, 1))
                    /\ IsPercentage(PartAt(hsl, 2))
                    /\ IsPercentage(PartAt(hsl, 3)))
            /\ HasPrefix(text, HslaPrefix) =>
                (ret.ok <=>
                    /\ IsClosed(text)
                    /\ PartCount(hsla) = 4
                    /\ IsHue(PartAt(hsla, 1))
                    /\ IsPercentage(PartAt(hsla, 2))
                    /\ IsPercentage(PartAt(hsla, 3))
                    /\ IsAlpha(PartAt(hsla, 4)))

\* an accepted hsla literal with the largest hue
C8_Witness ==
    /\ op = "validate_color"
    /\ ret.ok
    /\ HasPrefix(Normalised(arg), HslaPrefix)
    /\ PartAt(BodyOf(Normalised(arg), 5), 1) = <<"3", "6", "0">>

----------------------------------------------------------------------------
(* Native binary selection *)

OperatingSystem == {"windows", "macos", "linux"}

Arch == {"x86", "x64", "arm", "arm64"}

MBinNative(os, arch, path) == [os |-> os, arch |-> arch, path |-> path]

is_usable(self, os, arch) == self.os = os /\ self.arch = arch

\* the first position from `from` on whose binary is usable, as
\* slice::iter().find does; the reference returned is named by its position
RECURSIVE find_from(_, _, _, _)
find_from(options, from, os, arch) ==
    IF from > Len(options) THEN None
    ELSE IF is_usable(options[from], os, arch) THEN Some(from)
    ELSE find_from(options, from + 1, os, arch)

\* find_usable taking the last usable binary instead of the first
RECURSIVE find_last_from(_, _, _, _)
find_last_from(options, from, os, arch) ==
    IF from < 1 THEN None
    ELSE IF is_usable(options[from], os, arch) THEN Some(from)
    ELSE find_last_from(options, from - 1, os, arch)

find_usable_last_match(options, os, arch) ==
    find_last_from(options, Len(options), os, arch)

find_usable(options, os, arch) == find_from(options, 1, os, arch)

\* platform_os() and platform_arch() are fixed by the build target
find_current(options, platform_os, platform_arch) ==
    find_usable(options, platform_os, platform_arch)

MaxNativeLen == 2

NativePaths == {<<"v", "1">>, <<"v", "2">>}

NativeVariants ==
    {MBinNative(os, arch, path) : os \in OperatingSystem, arch \in Arch, path \in NativePaths}

NativeLists == SeqsUpTo(NativeVariants, MaxNativeLen)

CallIsUsable ==
    /\ op = "idle"
    /\ \E bin \in NativeVariants, os \in OperatingSystem, arch \in Arch :
        /\ op' = "is_usable"
        /\ arg' = [self |-> bin, os |-> os, arch |-> arch]
        /\ ret' = is_usable(bin, os, arch)

CallFindUsable ==
    /\ op = "idle"
    /\ \E options \in NativeLists, os \in OperatingSystem, arch \in Arch :
        /\ op' = "find_usable"
        /\ arg' = [options |-> options, os |-> os, arch |-> arch]
        /\ ret' = find_usable(options, os, arch)

CallFindCurrent ==
    /\ op = "idle"
    /\ \E options \in NativeLists, os \in OperatingSystem, arch \in Arch :
        /\ op' = "find_current"
        /\ arg' = [options |-> options, os |-> os, arch |-> arch]
        /\ ret' = find_current(options, os, arch)

NextNative ==
    \/ CallIsUsable
    \/ CallFindUsable
    \/ CallFindCurrent
    \/ Return

SpecNative == Init /\ [][NextNative]_vars

\* positions of the variants whose os and arch both equal the target
Matching(options, os, arch) ==
    {i \in 1..Len(options) : options[i].os = os /\ options[i].arch = arch}

\* C10: find_usable returns the matching variant of smallest index, None
\* exactly when no variant matches os and arch; is_usable is true only when
\* both os and arch are equal.
C10_FindUsableFirstMatch ==
    /\ op \in {"find_usable", "find_current"} =>
        LET m == Matching(arg.options, arg.os, arg.arch)
        IN  /\ ret = None <=> m = {}
            /\ m # {} =>
                /\ ret = Some(CHOOSE i \in m : \A j \in m : i <= j)
                /\ \A j \in 1..(ret[1] - 1) : j \notin m
    /\ op = "is_usable" =>
        (ret <=> (arg.self.os = arg.os /\ arg.self.arch = arg.arch))

\* two variants for the target with different paths: the first is returned
C10_Witness ==
    /\ op = "find_usable"
    /\ Len(arg.options) = 2
    /\ Matching(arg.options, arg.os, arg.arch) = {1, 2}
    /\ arg.options[1].path # arg.options[2].path
    /\ ret = Some(1)

----------------------------------------------------------------------------
(* Manifests and their validation *)

\* a component of a garde::Path: a field name or a map key (Kind::Key), or
\* the position of an element (Kind::Index)
Key(name) == [kind |-> "Key", text |-> name]

Index(i) == [kind |-> "Index", text |-> i]

RECURSIVE Flatten(_)
Flatten(reports) ==
    IF reports = <<>> THEN <<>> ELSE Head(reports) \o Flatten(Tail(reports))

\* #[garde(length(min = 1))] on a String
length_min_1(value, path) ==
    IF byte_len(value) < 1 THEN <<Entry(path, "length is lower than 1")>> ELSE <<>>

\* #[garde(inner(length(min = 1)))] on a Vec<String>: each element under
\* its index
inner_length_min_1(values, path) ==
    Flatten([i \in 1..Len(values) |-> length_min_1(values[i], Append(path, Index(i - 1)))])

\* #[garde(inner(custom(validate_color)))] on an Option<String>
inner_validate_color(value, path) ==
    IF value = None THEN <<>> ELSE custom(validate_color(value[1]), path)

\* the rules of MPlugin stopping at the first field with an error
MPlugin_validate_into_fail_fast(self, path) ==
    LET id == PluginId_validate_into(self.id, Append(path, Key("id")))
        name == length_min_1(self.name, Append(path, Key("name")))
        version == length_min_1(self.version, Append(path, Key("version")))
    IN  IF id # <<>> THEN id
        ELSE IF name # <<>> THEN name
        ELSE IF version # <<>> THEN version
        ELSE inner_length_min_1(self.authors, Append(path, Key("authors")))

MPlugin_validate_into(self, path) ==
    PluginId_validate_into(self.id, Append(path, Key("id")))
        \o length_min_1(self.name, Append(path, Key("name")))
        \o length_min_1(self.version, Append(path, Key("version")))
        \o inner_length_min_1(self.authors, Append(path, Key("authors")))

MCategory_validate_into(self, path) ==
    length_min_1(self.label, Append(path, Key("label")))

ManifestActionIconOptions_validate_into(self, path) ==
    inner_validate_color(self.background_color, Append(path, Key("background_color")))
        \o inner_validate_color(self.border_color, Append(path, Key("border_color")))

ManifestAction_validate_into(self, path) ==
    length_min_1(self.label, Append(path, Key("label")))
        \o (IF self.icon_options = None THEN <<>>
            ELSE ManifestActionIconOptions_validate_into(
                     self.icon_options[1], Append(path, Key("icon_options"))))

\* the walk over the ActionMap with each value under its position in the map
ActionMap_validate_into_by_position(self, path) ==
    Flatten([i \in 1..Len(self) |->
        ManifestAction_validate_into(self[i].value, Append(path, Index(i - 1)))])

\* the walk over the ActionMap stopping after the first action with an error
RECURSIVE ActionMap_validate_into_first_failure(_, _)
ActionMap_validate_into_first_failure(self, path) ==
    IF self = <<>> THEN <<>>
    ELSE LET report == ManifestAction_validate_into(
                           Head(self).value, Append(path, Key(fmt(Head(self).key))))
         IN  IF report # <<>> THEN report
             ELSE ActionMap_validate_into_first_failure(Tail(self), path)

\* impl Validate for ActionMap: each value is validated under its key; the
\* key itself is not
ActionMap_validate_into(self, path) ==
    Flatten([i \in 1..Len(self) |->
        ManifestAction_validate_into(self[i].value, Append(path, Key(fmt(self[i].key))))])

MBinNode_validate_into(self, path) ==
    length_min_1(self.entrypoint, Append(path, Key("entrypoint")))

MBinNative_validate_into(self, path) ==
    length_min_1(self.path, Append(path, Key("path")))

MBin_validate_into(self, path) ==
    IF self.variant = "Node"
    THEN MBinNode_validate_into(self.node, Append(path, Key("node")))
    ELSE Flatten([i \in 1..Len(self.native) |->
             MBinNative_validate_into(
                 self.native[i], Append(Append(path, Key("native")), Index(i - 1)))])

PluginManifest_validate_into(self, path) ==
    MPlugin_validate_into(self.plugin, Append(path, Key("plugin")))
        \o (IF self.bin = None THEN <<>>
            ELSE MBin_validate_into(self.bin[1], Append(path, Key("bin"))))
        \o MCategory_validate_into(self.category, Append(path, Key("category")))
        \o ActionMap_validate_into(self.actions, Append(path, Key("actions")))

\* the rules of MIconPack with the per-author rule of MPlugin
MIconPack_validate_into_with_author_rule(self, path) ==
    IconPackId_validate_into(self.id, Append(path, Key("id")))
        \o length_min_1(self.name, Append(path, Key("name")))
        \o length_min_1(self.version, Append(path, Key("version")))
        \o inner_length_min_1(self.authors, Append(path, Key("authors")))

MIconPack_validate_into(self, path) ==
    IconPackId_validate_into(self.id, Append(path, Key("id")))
        \o length_min_1(self.name, Append(path, Key("name")))
        \o length_min_1(self.version, Append(path, Key("version")))

IconsManifest_validate_into(self, path) ==
    MIconPack_validate_into(self.icons, Append(path, Key("icons")))

\* serde_json::from_str: the typed document of a well-formed text, an error
\* otherwise; the #[serde(transparent)] identifiers are built as they are
serde_json_from_str(text) ==
    IF text.malformed THEN [ok |-> FALSE, error |-> "Json"]
    ELSE OkValue(text.document)

\* serde_json::from_slice: the same decoding, of the bytes of the text
serde_json_from_slice(bytes) ==
    IF bytes.malformed THEN [ok |-> FALSE, error |-> "Json"]
    ELSE OkValue(bytes.document)

\* the manifest handed back whatever the report holds
validated_whatever_the_report(manifest, report) == OkValue(manifest)

\* `?` on Validate::validate into ManifestError::Validation
validated(manifest, report) ==
    IF validate(report).ok THEN OkValue(manifest)
    ELSE [ok |-> FALSE, error |-> "Validation", report |-> report]

PluginManifest_try_from(value) ==
    LET manifest == serde_json_from_str(value)
    IN  IF ~manifest.ok THEN manifest
        ELSE validated(manifest.value, PluginManifest_validate_into(manifest.value, <<>>))

PluginManifest_parse(value) == PluginManifest_try_from(value)

IconsManifest_try_from(value) ==
    LET manifest == serde_json_from_str(value)
    IN  IF ~manifest.ok THEN manifest
        ELSE validated(manifest.value, IconsManifest_validate_into(manifest.value, <<>>))

IconsManifest_parse(value) == IconsManifest_try_from(value)

\* impl TryFrom<&[u8]> for PluginManifest
PluginManifest_try_from_slice(value) ==
    LET manifest == serde_json_from_slice(value)
    IN  IF ~manifest.ok THEN manifest
        ELSE validated(manifest.value, PluginManifest_validate_into(manifest.value, <<>>))

\* impl TryFrom<&[u8]> for IconsManifest
IconsManifest_try_from_slice(value) ==
    LET manifest == serde_json_from_slice(value)
    IN  IF ~manifest.ok THEN manifest
        ELSE validated(manifest.value, IconsManifest_validate_into(manifest.value, <<>>))

----------------------------------------------------------------------------
(* Manifest inputs and the operations *)

MaxAuthors == 2

MaxBinNative == 2

MaxActions == 2

\* an empty and a non-empty string
Texts == {<<>>, <<"x">>}

\* "a.b" and "1a"
PluginIdTexts == {<<"a", ".", "b">>, <<"1", "a">>}

\* "a", "b" and "1"
ActionKeyTexts == {<<"a">>, <<"b">>, <<"1">>}

\* "#fff" and "red"
ColorTexts == {<<"#", "f", "f", "f">>, <<"r", "e", "d">>}

MPlugins ==
    {[id |-> PluginId(id), name |-> name, version |-> version, authors |-> authors,
      description |-> description, icon |-> None, internal |-> None] :
        id \in PluginIdTexts, name \in Texts, version \in Texts,
        authors \in SeqsUpTo(Texts, MaxAuthors), description \in {None, Some(<<>>)}}

DEFAULT_NODE_VERSION == "=22.18.0"

MBins ==
    {[variant |-> "Node", node |-> [entrypoint |-> e, version |-> DEFAULT_NODE_VERSION]] :
        e \in Texts}
    \cup
    {[variant |-> "Native", native |-> native] :
        native \in SeqsUpTo({MBinNative("linux", "x64", path) : path \in Texts},
                            MaxBinNative)}

MCategories == {[label |-> label, icon |-> None] : label \in Texts}

ManifestActionIconOptionsValues ==
    {[padding |-> None, background_color |-> bg, border_color |-> bc] :
        bg \in {None} \cup {Some(c) : c \in ColorTexts},
        bc \in {None} \cup {Some(c) : c \in ColorTexts}}

ManifestActions ==
    {[label |-> label, icon |-> None, display |-> None, icon_options |-> options,
      description |-> None, inspector |-> None] :
        label \in Texts,
        options \in {None} \cup {Some(o) : o \in ManifestActionIconOptionsValues}}

ActionEntries ==
    {[key |-> ActionId(k), value |-> a] : k \in ActionKeyTexts, a \in ManifestActions}

\* IndexMap<ActionId, ManifestAction> holds each key once
UniqueKeys(m) == \A i, j \in 1..Len(m) : i # j => m[i].key # m[j].key

ValidAction ==
    [label |-> <<"x">>, icon |-> None, display |-> None, icon_options |-> None,
     description |-> None, inspector |-> None]

ValidPlugin ==
    [id |-> PluginId(<<"a", ".", "b">>), name |-> <<"x">>, version |-> <<"x">>,
     authors |-> <<<<"x">>>>, description |-> None, icon |-> None, internal |-> None]

\* no action, a valid action, an action without label
SampleActionMaps ==
    {<<>>,
     <<[key |-> ActionId(<<"a">>), value |-> ValidAction]>>,
     <<[key |-> ActionId(<<"a">>), value |-> [ValidAction EXCEPT !.label = <<>>]]>>}

PluginManifest(plugin, bin, category, actions) ==
    [plugin |-> plugin, bin |-> bin, category |-> category, actions |-> actions]

\* a valid plugin and category around the action map
ManifestOfActions(actions) ==
    PluginManifest(ValidPlugin, None, [label |-> <<"x">>, icon |-> None], actions)

IconsManifests ==
    {[icons |-> [id |-> IconPackId(id), name |-> name, version |-> version,
                 authors |-> authors, description |-> description, icon |-> None]] :
        id \in PluginIdTexts, name \in Texts, version \in Texts,
        authors \in SeqsUpTo(Texts, MaxAuthors), description \in {None, Some(<<>>)}}

\* a text is malformed or holds a document
MalformedText == [malformed |-> TRUE]

TextOf(document) == [malformed |-> FALSE, document |-> document]

\* PluginManifest::parse of a malformed text, of every plugin, bin and
\* category around a sample action map, and of every action map of up to
\* MaxActions actions in a valid manifest
CallPluginManifestParse ==
    /\ op = "idle"
    /\ \/ /\ op' = "PluginManifest::parse"
          /\ arg' = MalformedText
          /\ ret' = PluginManifest_parse(MalformedText)
       \/ \E plugin \in MPlugins, bin \in {None} \cup {Some(b) : b \in MBins},
             category \in MCategories, actions \in SampleActionMaps :
            LET text == TextOf(PluginManifest(plugin, bin, category, actions))
            IN  /\ op' = "PluginManifest::parse"
                /\ arg' = text
                /\ ret' = PluginManifest_parse(text)
       \/ \E actions \in SeqsUpTo(ActionEntries, MaxActions) :
            LET text == TextOf(ManifestOfActions(actions))
            IN  /\ UniqueKeys(actions)
                /\ op' = "PluginManifest::parse"
                /\ arg' = text
                /\ ret' = PluginManifest_parse(text)

CallPluginManifestValidate ==
    /\ op = "idle"
    /\ \/ \E plugin \in MPlugins, bin \in {None} \cup {Some(b) : b \in MBins},
             category \in MCategories, actions \in SampleActionMaps :
            LET manifest == PluginManifest(plugin, bin, category, actions)
            IN  /\ op' = "PluginManifest::validate"
                /\ arg' = manifest
                /\ ret' = validate(PluginManifest_validate_into(manifest, <<>>))
       \/ \E actions \in SeqsUpTo(ActionEntries, MaxActions) :
            LET manifest == ManifestOfActions(actions)
            IN  /\ UniqueKeys(actions)
                /\ op' = "PluginManifest::validate"
                /\ arg' = manifest
                /\ ret' = validate(PluginManifest_validate_into(manifest, <<>>))

CallIconsManifestParse ==
    /\ op = "idle"
    /\ \E text \in {MalformedText} \cup {TextOf(m) : m \in IconsManifests} :
        /\ op' = "IconsManifest::parse"
        /\ arg' = text
        /\ ret' = IconsManifest_parse(text)

CallIconsManifestValidate ==
    /\ op = "idle"
    /\ \E manifest \in IconsManifests :
        /\ op' = "IconsManifest::validate"
        /\ arg' = manifest
        /\ ret' = validate(IconsManifest_validate_into(manifest, <<>>))

\* PluginManifest::try_from(&[u8]) of the bytes of a malformed text and of
\* every plugin, bin and category around a sample action map
CallPluginManifestTryFromSlice ==
    /\ op = "idle"
    /\ \/ /\ op' = "PluginManifest::try_from(&[u8])"
          /\ arg' = MalformedText
          /\ ret' = PluginManifest_try_from_slice(MalformedText)
       \/ \E plugin \in MPlugins, bin \in {None} \cup {Some(b) : b \in MBins},
             category \in MCategories, actions \in SampleActionMaps :
            LET bytes == TextOf(PluginManifest(plugin, bin, category, actions))
            IN  /\ op' = "PluginManifest::try_from(&[u8])"
                /\ arg' = bytes
                /\ ret' = PluginManifest_try_from_slice(bytes)

CallIconsManifestTryFromSlice ==
    /\ op = "idle"
    /\ \E bytes \in {MalformedText} \cup {TextOf(m) : m \in IconsManifests} :
        /\ op' = "IconsManifest::try_from(&[u8])"
        /\ arg' = bytes
        /\ ret' = IconsManifest_try_from_slice(bytes)

NextManifest ==
    \/ CallPluginManifestParse
    \/ CallPluginManifestTryFromSlice
    \/ CallPluginManifestValidate
    \/ CallIconsManifestParse
    \/ CallIconsManifestTryFromSlice
    \/ CallIconsManifestValidate
    \/ CallPluginIdFromStr
    \/ CallIconPackIdFromStr
    \/ CallActionIdFromStr
    \/ Return

SpecManifest == Init /\ [][NextManifest]_vars

----------------------------------------------------------------------------
(* Properties of the manifests *)

\* the identifiers of the value an operation returned as Ok, or found valid
LiveIdentifiers ==
    IF op \in IdentConstructors /\ ret.ok THEN {ret.value}
    ELSE IF op = "PluginManifest::parse" /\ ret.ok
    THEN {ret.value.plugin.id}
             \cup {ret.value.actions[i].key : i \in 1..Len(ret.value.actions)}
    ELSE IF op = "PluginManifest::validate" /\ ret.ok
    THEN {arg.plugin.id} \cup {arg.actions[i].key : i \in 1..Len(arg.actions)}
    ELSE IF op = "IconsManifest::parse" /\ ret.ok THEN {ret.value.icons.id}
    ELSE IF op = "IconsManifest::validate" /\ ret.ok THEN {arg.icons.id}
    ELSE {}

\* C3: every PluginId, IconPackId and ActionId that a constructor or a
\* manifest parse / validation hands out as valid wraps a string its grammar
\* accepts; in particular every key of the ActionMap of a manifest returned
\* as Ok by PluginManifest::parse passes the single-segment name rule.
C3_IdentifiersValid ==
    \A id \in LiveIdentifiers :
        IF id.ty = "ActionId" THEN SegmentRule(id.inner) ELSE DomainGrammar(id.inner)

\* the manifest a plugin manifest operation worked on
HasPluginManifest ==
    \/ op = "PluginManifest::validate"
    \/ op = "PluginManifest::parse" /\ ~arg.malformed

PluginManifestOf == IF op = "PluginManifest::validate" THEN arg ELSE arg.document

\* the report of the operation: empty when it returned Ok
ReportOf == IF ret.ok THEN <<>> ELSE ret.report

\* the rules of everything but the actions hold
OtherwiseValid(m) ==
    /\ DomainGrammar(m.plugin.id.inner)
    /\ m.plugin.name # <<>>
    /\ m.plugin.version # <<>>
    /\ \A i \in 1..Len(m.plugin.authors) : m.plugin.authors[i] # <<>>
    /\ m.category.label # <<>>
    /\ m.bin # None =>
        IF m.bin[1].variant = "Node" THEN m.bin[1].node.entrypoint # <<>>
        ELSE \A i \in 1..Len(m.bin[1].native) : m.bin[1].native[i].path # <<>>

\* the colours of the inputs that validate_color rejects
RejectedColorTexts == {c \in ColorTexts : ~validate_color(c).ok}

BadColor(c) ==
    /\ c # None
    /\ IF c[1] \in ColorTexts THEN c[1] \in RejectedColorTexts
       ELSE ~validate_color(c[1]).ok

\* the number of field rules an action violates: its label and its two colours
ViolatedRules(a) ==
    (IF a.label = <<>> THEN 1 ELSE 0)
    + (IF a.icon_options # None /\ BadColor(a.icon_options[1].background_color)
       THEN 1 ELSE 0)
    + (IF a.icon_options # None /\ BadColor(a.icon_options[1].border_color)
       THEN 1 ELSE 0)

InvalidActions(m) ==
    {i \in 1..Len(m.actions) : ViolatedRules(m.actions[i].value) > 0}

\* the entry lies under actions.<key>
Under(entry, key) ==
    /\ Len(entry.path) >= 3
    /\ entry.path[1].text = "actions"
    /\ entry.path[2] = Key(key.inner)

EntriesUnder(report, key) == {j \in 1..Len(report) : Under(report[j], key)}

\* C9 as stated: a plugin manifest with N invalid actions, otherwise valid,
\* is reported with exactly N entries, one under the path of each offending
\* action and none for a valid action.
C9_OneEntryPerInvalidAction ==
    (HasPluginManifest /\ OtherwiseValid(PluginManifestOf)) =>
        LET m == PluginManifestOf
        IN  /\ Len(ReportOf) = Cardinality(InvalidActions(m))
            /\ \A i \in 1..Len(m.actions) :
                Cardinality(EntriesUnder(ReportOf, m.actions[i].key))
                    = IF i \in InvalidActions(m) THEN 1 ELSE 0

\* C9 as amended: a plugin manifest with N actions whose value violates a
\* field rule, otherwise valid, is reported with one entry per violated rule
\* (label, background_color, border_color): every entry lies under the path
\* of an offending action, each offending action has as many entries as
\* rules it violates (1 to 3), a valid action has none, and the report has
\* between N and 3N entries.
C9_EntryPerViolatedRule ==
    (HasPluginManifest /\ OtherwiseValid(PluginManifestOf)) =>
        LET m == PluginManifestOf
            n == Cardinality(InvalidActions(m))
        IN  /\ \A j \in 1..Len(ReportOf) :
                \E i \in InvalidActions(m) : Under(ReportOf[j], m.actions[i].key)
            /\ \A i \in 1..Len(m.actions) :
                Cardinality(EntriesUnder(ReportOf, m.actions[i].key))
                    = ViolatedRules(m.actions[i].value)
            /\ n <= Len(ReportOf)
            /\ Len(ReportOf) <= 3 * n
            /\ (\A i \in InvalidActions(m) : ViolatedRules(m.actions[i].value) = 1)
                   => Len(ReportOf) = n

\* two invalid actions, one of them violating several rules
C9_Witness ==
    /\ op = "PluginManifest::validate"
    /\ OtherwiseValid(arg)
    /\ Cardinality(InvalidActions(arg)) = 2
    /\ Len(ReportOf) > 2

\* the operations that decode a text and validate the document
PluginParseOps == {"PluginManifest::parse", "PluginManifest::try_from(&[u8])"}

IconsParseOps == {"IconsManifest::parse", "IconsManifest::try_from(&[u8])"}

\* the report of the validation of the decoded document
WholeReport ==
    IF op \in PluginParseOps THEN PluginManifest_validate_into(arg.document, <<>>)
    ELSE IconsManifest_validate_into(arg.document, <<>>)

\* C11: parsing has exactly three outcomes: a text that does not decode
\* gives the Json error and no report; a decoded document with a violation
\* gives the Validation error carrying the whole report and no manifest;
\* only a decoded document with an empty report gives Ok, with that document.
C11_ParseOutcomes ==
    op \in PluginParseOps \cup IconsParseOps =>
        IF arg.malformed THEN ret = [ok |-> FALSE, error |-> "Json"]
        ELSE IF WholeReport # <<>>
        THEN ret = [ok |-> FALSE, error |-> "Validation", report |-> WholeReport]
        ELSE ret = [ok |-> TRUE, value |-> arg.document]

\* a document with several violations, rejected with all of them
C11_Witness ==
    /\ op \in PluginParseOps \cup IconsParseOps
    /\ ~arg.malformed
    /\ ~ret.ok
    /\ ret.error = "Validation"
    /\ Len(ret.report) >= 2

\* a plugin manifest operation that validated a document, the document and
\* the report it built
HasPluginDocument ==
    \/ op = "PluginManifest::validate"
    \/ op \in PluginParseOps /\ ~arg.malformed

PluginDocument == IF op = "PluginManifest::validate" THEN arg ELSE arg.document

ReportBuilt == IF ret.ok THEN <<>> ELSE ret.report

HasEntryAt(path) == \E j \in 1..Len(ReportBuilt) : ReportBuilt[j].path = path

\* the field of the action that `rest` names violates its rule
FieldViolated(a, rest) ==
    \/ rest = <<Key("label")>> /\ a.label = <<>>
    \/ /\ rest = <<Key("icon_options"), Key("background_color")>>
       /\ a.icon_options # None
       /\ BadColor(a.icon_options[1].background_color)
    \/ /\ rest = <<Key("icon_options"), Key("border_color")>>
       /\ a.icon_options # None
       /\ BadColor(a.icon_options[1].border_color)

\* the path leads from the root of the manifest m through field names to a
\* field that violates its rule, with the key for an action and the
\* zero-based index for an element of a sequence
PathToViolation(p, m) ==
    /\ Len(p) >= 2
    /\ p[1].kind = "Key"
    /\ \/ /\ p[1].text = "actions"
          /\ p[2].kind = "Key"
          /\ \E i \in 1..Len(m.actions) :
                /\ p[2].text = m.actions[i].key.inner
                /\ FieldViolated(m.actions[i].value, SubSeq(p, 3, Len(p)))
       \/ /\ p[1].text = "plugin"
          /\ p[2].kind = "Key"
          /\ \/ p = <<Key("plugin"), Key("id")>> /\ ~DomainGrammar(m.plugin.id.inner)
             \/ p = <<Key("plugin"), Key("name")>> /\ m.plugin.name = <<>>
             \/ p = <<Key("plugin"), Key("version")>> /\ m.plugin.version = <<>>
             \/ /\ Len(p) = 3
                /\ p[2].text = "authors"
                /\ p[3].kind = "Index"
                /\ p[3].text \in 0..(Len(m.plugin.authors) - 1)
                /\ m.plugin.authors[p[3].text + 1] = <<>>
       \/ /\ p = <<Key("category"), Key("label")>>
          /\ m.category.label = <<>>
       \/ /\ p[1].text = "bin"
          /\ m.bin # None
          /\ IF m.bin[1].variant = "Node"
             THEN /\ p = <<Key("bin"), Key("node"), Key("entrypoint")>>
                  /\ m.bin[1].node.entrypoint = <<>>
             ELSE /\ Len(p) = 4
                  /\ p[2] = Key("native")
                  /\ p[3].kind = "Index"
                  /\ p[3].text \in 0..(Len(m.bin[1].native) - 1)
                  /\ m.bin[1].native[p[3].text + 1].path = <<>>
                  /\ p[4] = Key("path")

\* C12: every entry of the report of a plugin manifest has a path from the
\* root through field names to the offending field; an entry for a
\* violation inside an action has the action's key as the component of the
\* action, never its position; an empty author and an empty native path are
\* reported under the zero-based index of the element.
C12_PathsByKeyAndIndex ==
    HasPluginDocument =>
        LET m == PluginDocument
        IN  /\ \A j \in 1..Len(ReportBuilt) : PathToViolation(ReportBuilt[j].path, m)
            /\ \A i \in 1..Len(m.actions) :
                  m.actions[i].value.label = <<>> =>
                      HasEntryAt(<<Key("actions"), Key(m.actions[i].key.inner), Key("label")>>)
            /\ \A i \in 1..Len(m.plugin.authors) :
                  m.plugin.authors[i] = <<>> =>
                      HasEntryAt(<<Key("plugin"), Key("authors"), Index(i - 1)>>)
            /\ (m.bin # None /\ m.bin[1].variant = "Native") =>
                  \A i \in 1..Len(m.bin[1].native) :
                      m.bin[1].native[i].path = <<>> =>
                          HasEntryAt(<<Key("bin"), Key("native"), Index(i - 1), Key("path")>>)

\* the second author, the second native path and an action are reported
C12_Witness ==
    /\ op = "PluginManifest::validate"
    /\ Len(arg.plugin.authors) = 2
    /\ arg.plugin.authors[1] # <<>>
    /\ HasEntryAt(<<Key("plugin"), Key("authors"), Index(1)>>)
    /\ HasEntryAt(<<Key("bin"), Key("native"), Index(1), Key("path")>>)
    /\ HasEntryAt(<<Key("actions"), Key(<<"a">>), Key("label")>>)

\* an icon-pack manifest operation that validated a document, and the document
HasIconsDocument ==
    \/ op = "IconsManifest::validate"
    \/ op \in IconsParseOps /\ ~arg.malformed

IconsDocument == IF op = "IconsManifest::validate" THEN arg ELSE arg.document

B(condition) == IF condition THEN 1 ELSE 0

\* the paths, below an action, of the fields that carry a rule
ActionRulePaths ==
    {<<Key("label")>>,
     <<Key("icon_options"), Key("background_color")>>,
     <<Key("icon_options"), Key("border_color")>>}

\* the violated rules of the actions: the action's position and the field
ActionViolations(m) ==
    {v \in (1..Len(m.actions)) \X ActionRulePaths :
        FieldViolated(m.actions[v[1]].value, v[2])}

EmptyAuthors(m) == {i \in 1..Len(m.plugin.authors) : m.plugin.authors[i] = <<>>}

EmptyNativePaths(m) ==
    IF m.bin # None /\ m.bin[1].variant = "Native"
    THEN {i \in 1..Len(m.bin[1].native) : m.bin[1].native[i].path = <<>>}
    ELSE {}

EmptyEntrypoint(m) ==
    m.bin # None /\ m.bin[1].variant = "Node" /\ m.bin[1].node.entrypoint = <<>>

\* the number of violated field rules of a plugin manifest
PluginRulesViolated(m) ==
    B(~DomainGrammar(m.plugin.id.inner)) + B(m.plugin.name = <<>>)
        + B(m.plugin.version = <<>>) + Cardinality(EmptyAuthors(m))
        + B(EmptyEntrypoint(m)) + Cardinality(EmptyNativePaths(m))
        + B(m.category.label = <<>>) + Cardinality(ActionViolations(m))

\* the number of violated field rules of an icon-pack manifest
IconsRulesViolated(m) ==
    B(~DomainGrammar(m.icons.id.inner)) + B(m.icons.name = <<>>)
        + B(m.icons.version = <<>>)

\* C13: the validation of a manifest evaluates every field rule whatever
\* the outcome of the others: each violated rule (plugin id, name, version,
\* each author, category label, each action's label and two colours, bin
\* entrypoint or each native path) has its entry under its own path, the
\* report has exactly one entry per violated rule, and the result is Ok
\* exactly when no rule is violated.
C13_EveryRuleEvaluated ==
    /\ HasPluginDocument =>
        LET m == PluginDocument
        IN  /\ Len(ReportBuilt) = PluginRulesViolated(m)
            /\ ret.ok <=> PluginRulesViolated(m) = 0
            /\ ~DomainGrammar(m.plugin.id.inner) => HasEntryAt(<<Key("plugin"), Key("id")>>)
            /\ m.plugin.name = <<>> => HasEntryAt(<<Key("plugin"), Key("name")>>)
            /\ m.plugin.version = <<>> => HasEntryAt(<<Key("plugin"), Key("version")>>)
            /\ \A i \in EmptyAuthors(m) :
                  HasEntryAt(<<Key("plugin"), Key("authors"), Index(i - 1)>>)
            /\ EmptyEntrypoint(m) => HasEntryAt(<<Key("bin"), Key("node"), Key("entrypoint")>>)
            /\ \A i \in EmptyNativePaths(m) :
                  HasEntryAt(<<Key("bin"), Key("native"), Index(i - 1), Key("path")>>)
            /\ m.category.label = <<>> => HasEntryAt(<<Key("category"), Key("label")>>)
            /\ \A v \in ActionViolations(m) :
                  HasEntryAt(<<Key("actions"), Key(m.actions[v[1]].key.inner)>> \o v[2])
    /\ HasIconsDocument =>
        LET m == IconsDocument
        IN  /\ Len(ReportBuilt) = IconsRulesViolated(m)
            /\ ret.ok <=> IconsRulesViolated(m) = 0
            /\ ~DomainGrammar(m.icons.id.inner) => HasEntryAt(<<Key("icons"), Key("id")>>)
            /\ m.icons.name = <<>> => HasEntryAt(<<Key("icons"), Key("name")>>)
            /\ m.icons.version = <<>> => HasEntryAt(<<Key("icons"), Key("version")>>)

\* a plugin manifest violating a rule in every entity, all of them reported
C13_Witness ==
    /\ op = "PluginManifest::validate"
    /\ ~DomainGrammar(arg.plugin.id.inner)
    /\ arg.plugin.name = <<>>
    /\ EmptyAuthors(arg) # {}
    /\ EmptyNativePaths(arg) # {}
    /\ arg.category.label = <<>>
    /\ ActionViolations(arg) # {}
    /\ Len(ReportBuilt) >= 6

\* the entries of the report whose path starts with the given components
EntriesBelow(prefix) ==
    {j \in 1..Len(ReportBuilt) :
        /\ Len(ReportBuilt[j].path) >= Len(prefix)
        /\ \A k \in 1..Len(prefix) :
              /\ ReportBuilt[j].path[k].kind = prefix[k].kind
              /\ ReportBuilt[j].path[k].text = prefix[k].text}

\* C16: an empty author of a plugin manifest is a violation reported at the
\* element's index, while the authors of an icon-pack manifest carry no rule,
\* so that an icon-pack manifest with an empty author and otherwise valid
\* fields is accepted; in both manifests an empty name or version is a
\* violation, and an absent optional field (description, icon, internal,
\* bin, icon_options, a colour) never produces an entry.
C16_AuthorsAndOptionalFields ==
    /\ HasPluginDocument =>
        LET m == PluginDocument
        IN  /\ \A i \in 1..Len(m.plugin.authors) :
                  m.plugin.authors[i] = <<>>
                      <=> HasEntryAt(<<Key("plugin"), Key("authors"), Index(i - 1)>>)
            /\ m.plugin.name = <<>> <=> HasEntryAt(<<Key("plugin"), Key("name")>>)
            /\ m.plugin.version = <<>> <=> HasEntryAt(<<Key("plugin"), Key("version")>>)
            /\ \A field \in {"description", "icon", "internal"} :
                  EntriesBelow(<<Key("plugin"), Key(field)>>) = {}
            /\ EntriesBelow(<<Key("category"), Key("icon")>>) = {}
            /\ m.bin = None => EntriesBelow(<<Key("bin")>>) = {}
            /\ \A i \in 1..Len(m.actions) :
                  LET a == m.actions[i].value
                      at == <<Key("actions"), Key(m.actions[i].key.inner)>>
                  IN  /\ a.icon_options = None =>
                            EntriesBelow(at \o <<Key("icon_options")>>) = {}
                      /\ \A colour \in {"background_color", "border_color"} :
                            (a.icon_options # None /\ a.icon_options[1][colour] = None)
                                => EntriesBelow(at \o <<Key("icon_options"), Key(colour)>>) = {}
    /\ HasIconsDocument =>
        LET m == IconsDocument
        IN  /\ ret.ok <=> /\ DomainGrammar(m.icons.id.inner)
                          /\ m.icons.name # <<>>
                          /\ m.icons.version # <<>>
            /\ m.icons.name = <<>> <=> HasEntryAt(<<Key("icons"), Key("name")>>)
            /\ m.icons.version = <<>> <=> HasEntryAt(<<Key("icons"), Key("version")>>)
            /\ \A field \in {"authors", "description", "icon"} :
                  EntriesBelow(<<Key("icons"), Key(field)>>) = {}

\* an icon-pack manifest with an empty author, accepted
C16_Witness ==
    /\ op = "IconsManifest::parse"
    /\ ~arg.malformed
    /\ \E i \in 1..Len(arg.document.icons.authors) : arg.document.icons.authors[i] = <<>>
    /\ arg.document.icons.description = None
    /\ ret.ok
    /\ ret.value = arg.document

----------------------------------------------------------------------------
(* The error validate_id reports *)

\* the pieces of s that break a rule, as index pairs
FailingPieceBounds(s) ==
    {b \in IdPieceBounds(s) : ~SegmentRule(SubSeq(s, b[1], b[2]))}

\* the leftmost of them
FirstFailingPiece(s) ==
    LET b == CHOOSE b \in FailingPieceBounds(s) :
                 \A c \in FailingPieceBounds(s) : b[1] <= c[1]
    IN  SubSeq(s, b[1], b[2])

\* the checks a piece fails, in the order start letter (1), character set
\* (2), trailing separator (3)
FailedChecks(p) ==
    (IF p = <<>> \/ ~is_ascii_alphabetic(p[1]) THEN {1} ELSE {})
    \cup (IF \E k \in 1..Len(p) : ~is_alphanumeric(p[k]) /\ p[k] \notin {"-", "_"}
          THEN {2} ELSE {})
    \cup (IF p # <<>> /\ p[Len(p)] \in {"-", "_"} THEN {3} ELSE {})

FirstFailedCheck(p) == CHOOSE n \in FailedChecks(p) : \A k \in FailedChecks(p) : n <= k

IdCheckMessages ==
    <<"segment must start with a ascii alphabetic character",
      "name domain segment must only contain alpha numeric values and _ or -",
      "name domain segment must not end with _ or -">>

\* C14: when validate_id rejects a string it returns exactly one error, that
\* of the first failing check of the leftmost failing segment, the checks of
\* a segment taken in the order start letter, character set, trailing
\* separator; the identifier constructors report that one error alone.
C14_FirstFailureReported ==
    /\ (op = "validate_id" /\ ~ret.ok) =>
          ret = [ok |-> FALSE,
                 err |-> IdCheckMessages[FirstFailedCheck(FirstFailingPiece(arg))]]
    /\ (op \in {"PluginId::from_str", "PluginId::try_from",
                "IconPackId::from_str", "IconPackId::try_from"} /\ ~ret.ok) =>
          /\ Len(ret.report) = 1
          /\ ret.report[1].msg = IdCheckMessages[FirstFailedCheck(FirstFailingPiece(arg))]

\* a first segment failing its last check before a segment failing its first
C14_Witness ==
    /\ op = "validate_id"
    /\ arg = <<"a", "-", ".">>
    /\ Cardinality(FailingPieceBounds(arg)) = 2
    /\ ret = Err("name domain segment must not end with _ or -")

----------------------------------------------------------------------------
(* The error of a functional colour *)

\* the functional forms: prefix, number of parts, part-count error
ColorForms ==
    {[prefix |-> RgbPrefix, count |-> 3, hue |-> FALSE, error |-> "invalid rgb color"],
     [prefix |-> RgbaPrefix, count |-> 4, hue |-> FALSE, error |-> "invalid rgba color"],
     [prefix |-> HslPrefix, count |-> 3, hue |-> TRUE, error |-> "invalid hsl color"],
     [prefix |-> HslaPrefix, count |-> 4, hue |-> TRUE, error |-> "invalid hsla color"]}

\* the outcome of the rule of the n-th part of a form
PartRule(form, n, part) ==
    IF n = 4 THEN parse_alpha(part)
    ELSE IF ~form.hue THEN parse_rgb_component(part)
    ELSE IF n = 1 THEN parse_hue(part)
    ELSE parse_percentage(part)

\* C15: for an rgb/rgba/hsl/hsla literal with its closing ')', a wrong
\* number of comma-separated parts gives the part-count error of the form
\* whatever the parts contain; with the right number of parts the literal
\* is accepted when every part passes its rule and otherwise the error is
\* that of the leftmost part that fails its rule.
C15_PartCountThenLeftmost ==
    op = "validate_color" =>
        LET text == Normalised(arg)
        IN  \A form \in ColorForms :
                (HasPrefix(text, form.prefix) /\ IsClosed(text)) =>
                    LET body == BodyOf(text, Len(form.prefix))
                        failing == {n \in 1..form.count :
                                       ~PartRule(form, n, PartAt(body, n)).ok}
                    IN  IF PartCount(body) # form.count THEN ret = Err(form.error)
                        ELSE IF failing = {} THEN ret = Ok
                        ELSE \E n \in failing :
                                /\ \A k \in failing : n <= k
                                /\ ret = PartRule(form, n, PartAt(body, n))

\* an rgba literal whose second and fourth parts fail: the second is reported
C15_Witness ==
    /\ op = "validate_color"
    /\ HasPrefix(Normalised(arg), RgbaPrefix)
    /\ IsClosed(Normalised(arg))
    /\ PartCount(BodyOf(Normalised(arg), 5)) = 4
    /\ parse_rgb_component(PartAt(BodyOf(Normalised(arg), 5), 1)).ok
    /\ ~parse_rgb_component(PartAt(BodyOf(Normalised(arg), 5), 2)).ok
    /\ ~parse_alpha(PartAt(BodyOf(Normalised(arg), 5), 4)).ok
    /\ ret = Err("rgb exceeded 255 bound")

\* the rule of the n-th of the first three parts of a form, on the digits
NumberRule(form, n, part) ==
    IF ~form.hue THEN IsUnsignedUpTo(part, 255) \/ IsPercentage(part)
    ELSE IF n = 1 THEN IsUnsignedUpTo(part, 360)
    ELSE IsPercentage(part)

\* C17: in every colour form an integer, hue or percentage part is accepted
\* exactly when it is an optional '+' followed by one or more ASCII digits
\* (leading zeros allowed) of value within the bound of the field (255,
\* 360, 100 before the '%'): an empty part, a '-' sign, inner whitespace and
\* a fraction are rejected, and so is every value above the bound, also one
\* that would come within the bound modulo 2^8 or 2^16.
C17_IntegerParts ==
    op = "validate_color" =>
        LET text == Normalised(arg)
        IN  \A form \in ColorForms :
                LET body == BodyOf(text, Len(form.prefix))
                    parts == [k \in 1..form.count |-> PartAt(body, k)]
                IN  (/\ HasPrefix(text, form.prefix)
                     /\ IsClosed(text)
                     /\ PartCount(body) = form.count) =>
                        \A n \in 1..3 :
                            (\A k \in (1..form.count) \ {n} :
                                PartRule(form, k, parts[k]).ok)
                                => (ret.ok <=> NumberRule(form, n, parts[n]))

\* 356% with leading zeros, which is 100 modulo 2^8, rejected
C17_Witness ==
    /\ op = "validate_color"
    /\ arg = <<"h","s","l","(">> \o <<"0", ",", "+", "0", "3", "5", "6", "%", ",", "0", "%", ")">>
    /\ ~IsPercentage(PartAt(BodyOf(Normalised(arg), 4), 2))
    /\ ret = Err("invalid percent")

====
